---- MODULE Spec2Model ----
(***************************************************************************)
(* A model of the telephony routes of dograh (src/api/routes/telephony.py) *)
(* and of the provider factory (src/api/services/telephony/factory.py).    *)
(*                                                                         *)
(* Three request handlers are modelled, each as a process that moves from  *)
(* one `await` of the source to the next:                                  *)
(*   - handle_status_callback / _process_status_update  (Spec)            *)
(*   - initiate_call                                    (SpecCall)        *)
(*   - websocket_endpoint                               (SpecWs)          *)
(* The collaborators that the source only imports (db_client, the         *)
(* campaign dispatcher and publisher, the provider class) are modelled as  *)
(* recorded calls and as a store of WorkflowRun records.                   *)
(***************************************************************************)
EXTENDS Integers, Sequences, FiniteSets, TLC

VARIABLES
    runs,        \* the workflow-run store: run id -> WorkflowRun record
    handler,     \* status-callback invocations: handler id -> its local state
    request,     \* initiate-call invocations: request id -> its local state
    conn,        \* websocket connections: connection id -> its local state
    environ      \* the process environment: variable name -> value

vars == <<runs, handler, request, conn, environ>>

----------------------------------------------------------------------------
(* Bounds of the model *)

\* Number of status callbacks delivered (each handled by its own task).
NumCallbacks == 2

\* Number of initiate-call requests.
NumRequests == 2

\* Number of websocket connections.
NumConnections == 2

----------------------------------------------------------------------------
(* Python values *)

\* Python's None for an optional integer id. Ids are positive; the source only
\* ever tests an id for truth (`if workflow_run.campaign_id:`,
\* `if not workflow_run_id:`), where None and 0 behave alike.
None == 0

\* Python's None for an optional string (a missing form field or header).
NoneStr == "<None>"

\* Truth value of an optional string: None and "" are false.
Truthy(s) == s /= NoneStr /\ s /= ""

\* The characters of the string literals the model manipulates.
Chars(s) ==
    CASE s = "completed"   -> <<"c","o","m","p","l","e","t","e","d">>
      [] s = "failed"      -> <<"f","a","i","l","e","d">>
      [] s = "busy"        -> <<"b","u","s","y">>
      [] s = "no-answer"   -> <<"n","o","-","a","n","s","w","e","r">>
      [] s = "canceled"    -> <<"c","a","n","c","e","l","e","d">>
      [] s = "ringing"     -> <<"r","i","n","g","i","n","g">>
      [] s = "in-progress" -> <<"i","n","-","p","r","o","g","r","e","s","s">>
      [] s = "not_connected" -> <<"n","o","t","_","c","o","n","n","e","c","t","e","d">>
      [] s = "telephony_"  -> <<"t","e","l","e","p","h","o","n","y","_">>
      [] s = "vip"         -> <<"v","i","p">>
      [] s = "twilio"      -> <<"t","w","i","l","i","o">>
      [] s = "Twilio"      -> <<"T","w","i","l","i","o">>
      [] s = "vonage"      -> <<"v","o","n","a","g","e">>
      [] s = "37"          -> <<"3","7">>
      [] s = " 37"         -> <<" ","3","7">>
      [] s = "37 "         -> <<"3","7"," ">>
      [] s = "+37"         -> <<"+","3","7">>
      [] s = "-5"          -> <<"-","5">>
      [] s = "3_7"         -> <<"3","_","7">>
      [] s = "abc"         -> <<"a","b","c">>
      [] s = ""            -> <<>>

\* str.replace(old, new) for single characters.
StrReplace(cs, old, new) ==
    [i \in DOMAIN cs |-> IF cs[i] = old THEN new ELSE cs[i]]

\* str.lower(): upper-case ASCII letters map to lower case, all else is kept.
LowerChar(c) ==
    CASE c = "A" -> "a" [] c = "B" -> "b" [] c = "C" -> "c" [] c = "D" -> "d"
      [] c = "E" -> "e" [] c = "F" -> "f" [] c = "G" -> "g" [] c = "H" -> "h"
      [] c = "I" -> "i" [] c = "J" -> "j" [] c = "K" -> "k" [] c = "L" -> "l"
      [] c = "M" -> "m" [] c = "N" -> "n" [] c = "O" -> "o" [] c = "P" -> "p"
      [] c = "Q" -> "q" [] c = "R" -> "r" [] c = "S" -> "s" [] c = "T" -> "t"
      [] c = "U" -> "u" [] c = "V" -> "v" [] c = "W" -> "w" [] c = "X" -> "x"
      [] c = "Y" -> "y" [] c = "Z" -> "z"
      [] OTHER -> c

StrLower(cs) == [i \in DOMAIN cs |-> LowerChar(cs[i])]

\* Value of a decimal digit, -1 for any other character.
DigitValue(c) ==
    CASE c = "0" -> 0 [] c = "1" -> 1 [] c = "2" -> 2 [] c = "3" -> 3
      [] c = "4" -> 4 [] c = "5" -> 5 [] c = "6" -> 6 [] c = "7" -> 7
      [] c = "8" -> 8 [] c = "9" -> 9
      [] OTHER -> -1

RECURSIVE DigitsValue(_, _)
DigitsValue(cs, acc) ==
    IF cs = <<>> THEN acc
    ELSE DigitsValue(Tail(cs), 10 * acc + DigitValue(Head(cs)))

\* The whitespace int() strips from both ends of its argument: space, tab,
\* line feed, vertical tab (U+000B), form feed, carriage return, next line
\* (U+0085) and no-break space (U+00A0).  It also strips the Unicode spaces
\* beyond U+00FF, which a string of this module cannot hold.
Whitespace == {" ", "\t", "\n", "", "\f", "\r", "", " "}

RECURSIVE StripLeft(_)
StripLeft(cs) ==
    IF cs /= <<>> /\ Head(cs) \in Whitespace THEN StripLeft(Tail(cs)) ELSE cs

RECURSIVE StripRight(_)
StripRight(cs) ==
    IF cs /= <<>> /\ cs[Len(cs)] \in Whitespace
    THEN StripRight(SubSeq(cs, 1, Len(cs) - 1)) ELSE cs

\* The digits of an integer literal: digits, with single underscores allowed
\* between two of them.
IsDigits(cs) ==
    /\ cs /= <<>>
    /\ DigitValue(cs[1]) >= 0
    /\ DigitValue(cs[Len(cs)]) >= 0
    /\ \A i \in DOMAIN cs : DigitValue(cs[i]) >= 0 \/ cs[i] = "_"
    /\ \A i \in 1..(Len(cs) - 1) : ~(cs[i] = "_" /\ cs[i + 1] = "_")

IsNotUnderscore(c) == c /= "_"

\* int(str): surrounding whitespace is stripped, then an optional sign and
\* the digits give the value; anything else raises ValueError (ok = FALSE).
PyInt(cs) ==
    LET stripped == StripRight(StripLeft(cs))
        signed   == stripped /= <<>> /\ Head(stripped) \in {"+", "-"}
        digits   == IF signed THEN Tail(stripped) ELSE stripped
        value    == DigitsValue(SelectSeq(digits, IsNotUnderscore), 0)
    IN  IF IsDigits(digits)
        THEN [ok |-> TRUE,
              value |-> IF signed /\ Head(stripped) = "-" THEN 0 - value ELSE value]
        ELSE [ok |-> FALSE, value |-> 0]

----------------------------------------------------------------------------
(* The workflow-run store and the stores behind it *)

\* gathered_context: None, or a dict that may hold the key "call_tags".
NoneContext == [is_none |-> TRUE, keys |-> {}, call_tags |-> <<>>]
EmptyContext == [is_none |-> FALSE, keys |-> {}, call_tags |-> <<>>]
TagsContext(tags) == [is_none |-> FALSE, keys |-> {"call_tags"}, call_tags |-> tags]

\* logs: a dict that may hold the key "twilio_status_callbacks", whose value
\* is the list of callback entries.  create_workflow_run leaves it {}.
NoLogs == [keys |-> {}, twilio_status_callbacks |-> <<>>]
StatusCallbackLogs(entries) ==
    [keys |-> {"twilio_status_callbacks"}, twilio_status_callbacks |-> entries]

\* A WorkflowRun record as the store keeps it.  `name` holds the number n of
\* the run name "WR-TEL-n".
WorkflowRun(workflow_id, user_id, name, phone, campaign_id, queued_run_id, ctx) ==
    [ workflow_id      |-> workflow_id,
      user_id          |-> user_id,
      name             |-> name,
      mode             |-> "twilio",
      initial_context  |-> [phone_number |-> phone],
      gathered_context |-> ctx,
      logs             |-> NoLogs,
      is_completed     |-> FALSE,
      campaign_id      |-> campaign_id,
      queued_run_id    |-> queued_run_id ]

\* What a handler holds before it has loaded a run.
NoRun == WorkflowRun(None, None, 0, "", None, None, NoneContext)

\* Workflows the store knows, with the organization that owns each.
\* Workflow 3 has been deleted: get_workflow_by_id(3) returns None.
Workflows == {1, 2}
WorkflowOrganization(w) == IF w = 1 THEN 1 ELSE 2


\* Per-organization telephony configuration rows (db_client.get_configuration):
\* organization 1 is fully configured, organization 2 has no row, and
\* organization 3 has a row whose auth_token is blank.
NoConfiguration == [present |-> FALSE, value_set |-> FALSE,
                    account_sid |-> NoneStr, auth_token |-> NoneStr, from_numbers |-> <<>>]
Configuration(sid, token, numbers) ==
    [present |-> TRUE, value_set |-> TRUE,
     account_sid |-> sid, auth_token |-> token, from_numbers |-> numbers]

Organizations == {1, 2, 3}

GetConfiguration(organization_id) ==
    CASE organization_id = 1 -> Configuration("AC1", "tok1", <<"+15550001">>)
      [] organization_id = 3 -> Configuration("AC3", "", <<"+15550003">>)
      [] OTHER -> NoConfiguration

\* The process environment the service runs in: variable name -> value,
\* NoneStr if unset.
Environ ==
    [ TELEPHONY_PROVIDER |-> NoneStr,
      TWILIO_ACCOUNT_SID |-> "ACenv",
      TWILIO_AUTH_TOKEN  |-> "tokenv",
      TWILIO_FROM_NUMBER |-> "+15550000" ]

\* Environments a deployment may run in: the full one, one with a variable
\* unset, one with a variable blank, and ones that name the provider.
Environs ==
    { Environ,
      [Environ EXCEPT !.TWILIO_ACCOUNT_SID = NoneStr],
      [Environ EXCEPT !.TWILIO_AUTH_TOKEN = ""],
      [Environ EXCEPT !.TWILIO_FROM_NUMBER = NoneStr],
      [Environ EXCEPT !.TELEPHONY_PROVIDER = "Twilio"],
      [Environ EXCEPT !.TELEPHONY_PROVIDER = "vonage"] }

----------------------------------------------------------------------------
(* src/api/services/telephony/factory.py *)

NoTelephonyConfig ==
    [provider |-> "", account_sid |-> NoneStr, auth_token |-> NoneStr, from_numbers |-> <<>>]

\* load_telephony_config: the configuration, or the ValueError it raises.
LoadTelephonyConfig(organization_id, env) ==
    IF organization_id /= None
    THEN LET twilio_config == GetConfiguration(organization_id) IN
         IF twilio_config.present /\ twilio_config.value_set
         THEN [ok |-> TRUE, error |-> "",
               config |-> [provider     |-> "twilio",
                           account_sid  |-> twilio_config.account_sid,
                           auth_token   |-> twilio_config.auth_token,
                           from_numbers |-> twilio_config.from_numbers]]
         ELSE [ok |-> FALSE, error |-> "ValueError", config |-> NoTelephonyConfig]
    ELSE LET provider == StrLower(Chars(IF env.TELEPHONY_PROVIDER = NoneStr
                                        THEN "twilio" ELSE env.TELEPHONY_PROVIDER))
             account_sid == env.TWILIO_ACCOUNT_SID
             auth_token  == env.TWILIO_AUTH_TOKEN
             from_number == env.TWILIO_FROM_NUMBER
         IN  IF provider = Chars("twilio")
             THEN IF ~(Truthy(account_sid) /\ Truthy(auth_token) /\ Truthy(from_number))
                  THEN [ok |-> FALSE, error |-> "ValueError", config |-> NoTelephonyConfig]
                  ELSE [ok |-> TRUE, error |-> "",
                        config |-> [provider     |-> "twilio",
                                    account_sid  |-> account_sid,
                                    auth_token   |-> auth_token,
                                    from_numbers |-> <<from_number>>]]
             ELSE [ok |-> FALSE, error |-> "ValueError", config |-> NoTelephonyConfig]

\* get_telephony_provider: a provider bound to the configuration, or ValueError.
GetTelephonyProvider(organization_id, env) ==
    LET loaded == LoadTelephonyConfig(organization_id, env) IN
    IF ~loaded.ok THEN loaded
    ELSE IF loaded.config.provider = "twilio" THEN loaded
    ELSE [ok |-> FALSE, error |-> "ValueError", config |-> NoTelephonyConfig]

\* TwilioProvider.validate_config: all required credential fields are non-empty.
ValidateConfig(provider) ==
    /\ Truthy(provider.account_sid)
    /\ Truthy(provider.auth_token)
    /\ provider.from_numbers /= <<>>

\* The signature the carrier computes with the account's auth token over the
\* callback URL and form fields.
SignatureFor(auth_token) == IF auth_token = "tok1" THEN "sig-tok1" ELSE "sig-other"

\* TwilioProvider.verify_webhook_signature
VerifyWebhookSignature(provider, signature) ==
    signature = SignatureFor(provider.auth_token)


----------------------------------------------------------------------------
(* The workflow-run store (db_client) *)

\* db_client.get_workflow_run_by_id: whether the store knows the run.
RunExists(store, run_id) == run_id \in DOMAIN store

\* db_client.update_workflow_run(run_id, logs={"twilio_status_callbacks": logs})
UpdateLogs(store, run_id, logs) ==
    [store EXCEPT ![run_id].logs = StatusCallbackLogs(logs)]

\* db_client.update_workflow_run(run_id, is_completed=True)
UpdateCompleted(store, run_id) ==
    [store EXCEPT ![run_id].is_completed = TRUE]

\* db_client.update_workflow_run(run_id, is_completed=True,
\*                               gathered_context={"call_tags": call_tags})
UpdateCompletedWithTags(store, run_id, call_tags) ==
    [store EXCEPT ![run_id].is_completed = TRUE,
                  ![run_id].gathered_context = TagsContext(call_tags)]

----------------------------------------------------------------------------
(* Status callbacks: inputs *)

Handlers == 1..NumCallbacks

\* Run ids a callback may name: run 1 is in the store, run 9 is not.
CallbackRunIds == {1, 9}

Statuses == {"completed", "failed", "busy", "no-answer", "canceled", "ringing"}

\* Values of the X-Twilio-Signature header: absent, the signature the owning
\* tenant's auth token yields, and a wrong one.
Signatures == {NoneStr, "sig-tok1", "sig-bad"}

\* The form fields of a callback that the handler reads.
FormData(status, call_duration, duration) ==
    [CallStatus |-> status, CallDuration |-> call_duration, Duration |-> duration]

\* The payloads delivered: every status without a duration, a form without
\* CallStatus, and a completed call with a numeric, a padded, a negative, a
\* non-numeric and an empty duration.
Payloads ==
    { FormData(s, NoneStr, NoneStr) : s \in Statuses }
    \cup { FormData(NoneStr, NoneStr, NoneStr),
           FormData("completed", " 37", NoneStr),
           FormData("completed", "-5", NoneStr),
           FormData("completed", "37", NoneStr),
           FormData("completed", "", "37"),
           FormData("completed", "abc", NoneStr),
           FormData("completed", "", "") }

\* StatusCallbackRequest.from_twilio
FromTwilio(data) ==
    [ status   |-> IF data.CallStatus = NoneStr THEN "" ELSE data.CallStatus,
      duration |-> IF Truthy(data.CallDuration) THEN data.CallDuration
                   ELSE data.Duration ]

----------------------------------------------------------------------------
(* Status callbacks: the calls a handler makes on its collaborators *)

\* A recorded call: its name, and its arguments (those it does not take are
\* left at their defaults).
Call(op, run_id) ==
    [ op |-> op, run_id |-> run_id, campaign_id |-> None, queued_run_id |-> None,
      reason |-> <<>>, call_duration |-> 0,
      fields |-> {}, logs |-> <<>>, call_tags |-> <<>> ]

\* update_workflow_run(run_id, logs=...)
UpdateLogsCall(run_id, logs) ==
    [Call("update_workflow_run", run_id) EXCEPT !.fields = {"logs"}, !.logs = logs]

\* update_workflow_run(run_id, is_completed=True)
UpdateCompletedCall(run_id) ==
    [Call("update_workflow_run", run_id) EXCEPT !.fields = {"is_completed"}]

\* update_workflow_run(run_id, is_completed=True, gathered_context=...)
UpdateCompletedWithTagsCall(run_id, call_tags) ==
    [Call("update_workflow_run", run_id) EXCEPT
        !.fields = {"is_completed", "gathered_context"}, !.call_tags = call_tags]

ReleaseCall(run_id) == Call("release_call_slot", run_id)

PublishCompletedCall(campaign_id, run_id, queued_run_id, call_duration) ==
    [Call("publish_call_completed", run_id) EXCEPT
        !.campaign_id = campaign_id, !.queued_run_id = queued_run_id,
        !.call_duration = call_duration]

PublishRetryCall(run_id, reason, campaign_id, queued_run_id) ==
    [Call("publish_retry_needed", run_id) EXCEPT
        !.campaign_id = campaign_id, !.queued_run_id = queued_run_id,
        !.reason = reason]

\* The response of the endpoint, or the exception that leaves it.
Response(status, reason) == [status |-> status, reason |-> reason]
NoResponse == Response("", "")
Raised(exception) == Response("raised", exception)

IdleHandler ==
    [ pc           |-> "idle",
      run_id       |-> None,
      signature    |-> NoneStr,
      status       |-> "",
      duration     |-> NoneStr,
      workflow_run |-> NoRun,      \* the object loaded at line 207
      is_valid     |-> "unset",    \* outcome of verify_webhook_signature
      calls        |-> <<>>,
      response     |-> NoResponse ]

----------------------------------------------------------------------------
(* Status callbacks: the decisions of _process_status_update *)

\* line 266
IsCompletedStatus(status) == status = "completed"

\* A variant of line 290 with a plain `else:` in place of the `elif`.
IsFailureStatus_Else(status) == status /= "completed"

\* line 290
IsFailureStatus(status) == status \in {"failed", "busy", "no-answer", "canceled"}

\* lines 272, 281, 294, 298: `if workflow_run.campaign_id`
HasCampaign(workflow_run) == workflow_run.campaign_id /= None

\* A variant of line 298 that asks for a retry after every failure status.
NeedsRetry_AnyFailure(status, workflow_run) ==
    IsFailureStatus(status) /\ HasCampaign(workflow_run)

\* line 298
NeedsRetry(status, workflow_run) ==
    status \in {"busy", "no-answer"} /\ HasCampaign(workflow_run)

\* A variant of line 302 that passes the status on as it came.
RetryReason_Raw(status) == Chars(status)

\* line 302: status.status.replace("-", "_")
RetryReason(status) == StrReplace(Chars(status), "-", "_")

\* line 287: int(status.duration) if status.duration else 0
CallDuration(duration) ==
    IF Truthy(duration) THEN PyInt(Chars(duration)) ELSE [ok |-> TRUE, value |-> 0]

\* A variant of line 308 that starts from an empty list of tags.
LoadedCallTags_Fresh(workflow_run) == <<>>

\* line 249: workflow_run.logs.get("twilio_status_callbacks", []): the list
\* of the loaded run, a fresh [] when the dict has no such key
LoadedCallbackLogs(workflow_run) ==
    IF "twilio_status_callbacks" \in workflow_run.logs.keys
    THEN workflow_run.logs.twilio_status_callbacks
    ELSE <<>>

\* line 257: append() mutates the loaded list in place when the key exists
\* and a fresh list, which the loaded run does not hold, when it does not.
LogsAfterAppend(workflow_run, twilio_callback_logs) ==
    IF "twilio_status_callbacks" \in workflow_run.logs.keys
    THEN StatusCallbackLogs(twilio_callback_logs)
    ELSE workflow_run.logs

\* line 308: the call_tags list of the loaded run, [] without one
LoadedCallTags(workflow_run) ==
    IF ~workflow_run.gathered_context.is_none
       /\ workflow_run.gathered_context.keys /= {}
       /\ "call_tags" \in workflow_run.gathered_context.keys
    THEN workflow_run.gathered_context.call_tags
    ELSE <<>>

\* line 309: ["not_connected", f"telephony_{status.status.lower()}"]
FailureTags(status) ==
    << Chars("not_connected"), Chars("telephony_") \o StrLower(Chars(status)) >>

\* A variant of line 210 that raises a 404 for an unknown run.
NotFoundResponse_Raise == Raised("HTTPException")

\* line 210: the answer for a run the store does not know
NotFoundResponse == Response("ignored", "workflow_run_not_found")

\* line 213: `if x_twilio_signature`
SignatureGiven(signature) == Truthy(signature)

\* A variant of line 227 that only logs an invalid signature.
SignatureRejected_WarnOnly(is_valid) == FALSE

\* line 227: `if not is_valid`
SignatureRejected(is_valid) == ~is_valid


----------------------------------------------------------------------------
(* Status callbacks: handle_status_callback and _process_status_update.    *)
(* One action per stretch of code between two awaits that touch the store  *)
(* or a collaborator; handlers of different callbacks interleave freely.   *)
(* Each awaited collaborator call either returns (ok) or raises; the       *)
(* source catches nothing, so the exception leaves the handler.            *)

Finish(h, response) ==
    [handler EXCEPT ![h].pc = "done", ![h].response = response]

\* The exceptions of the collaborators: the store, the campaign dispatcher
\* and the campaign event publisher.
PersistenceError == Raised("PersistenceError")
DispatcherError == Raised("DispatcherError")
PublisherError == Raised("PublisherError")

\* The step of _process_status_update that follows the log update (line 266,
\* 290) and the ones after it.
AfterLog(status, workflow_run) ==
    IF IsCompletedStatus(status)
    THEN (IF HasCampaign(workflow_run) THEN "release" ELSE "mark")
    ELSE IF IsFailureStatus(status)
    THEN (IF HasCampaign(workflow_run) THEN "release" ELSE "mark")
    ELSE "return"

\* A variant of lines 273-288 that returns after the completion update
\* without publishing.
AfterMarkCompleted_NoPublish(workflow_run) == "return"

\* lines 280-281: after the completion update, publish for a campaign run.
AfterMarkCompleted(workflow_run) ==
    IF HasCampaign(workflow_run) THEN "publish" ELSE "return"

AfterRelease(status, workflow_run) ==
    IF IsCompletedStatus(status) THEN "mark"
    ELSE IF NeedsRetry(status, workflow_run) THEN "publish" ELSE "mark"

\* lines 199-213: parse the form, load the run, answer "ignored" for an
\* unknown run.  Callbacks are numbered in their order of arrival.
ReceiveCallback(h, workflow_run_id, data, x_twilio_signature) ==
    /\ handler[h].pc = "idle"
    /\ h > 1 => handler[h - 1].pc /= "idle"
    /\ LET status_update == FromTwilio(data)
           arrived == [handler[h] EXCEPT
                          !.run_id = workflow_run_id,
                          !.signature = x_twilio_signature,
                          !.status = status_update.status,
                          !.duration = status_update.duration]
       IN  IF ~RunExists(runs, workflow_run_id)
           THEN handler' = [handler EXCEPT ![h] =
                    [arrived EXCEPT !.pc = "done", !.response = NotFoundResponse]]
           ELSE handler' = [handler EXCEPT ![h] =
                    [arrived EXCEPT
                        !.workflow_run = runs[workflow_run_id],
                        !.pc = IF SignatureGiven(x_twilio_signature)
                               THEN "verify" ELSE "process"]]
    /\ UNCHANGED <<runs, request, conn, environ>>

\* lines 214-229: verify the signature with the owning tenant's provider.
VerifySignature(h) ==
    /\ handler[h].pc = "verify"
    /\ LET workflow_id == handler[h].workflow_run.workflow_id IN
       IF workflow_id \in Workflows
       THEN LET provider == GetTelephonyProvider(WorkflowOrganization(workflow_id), environ) IN
            IF ~provider.ok
            THEN handler' = Finish(h, Raised(provider.error))
            ELSE LET is_valid == VerifyWebhookSignature(provider.config, handler[h].signature) IN
                 IF SignatureRejected(is_valid)
                 THEN handler' = [handler EXCEPT
                          ![h].pc = "done", ![h].is_valid = "invalid",
                          ![h].response = Response("error", "invalid_signature")]
                 ELSE handler' = [handler EXCEPT
                          ![h].pc = "process",
                          ![h].is_valid = IF is_valid THEN "valid" ELSE "invalid"]
       ELSE handler' = [handler EXCEPT ![h].pc = "process"]
    /\ UNCHANGED <<runs, request, conn, environ>>

\* A variant of lines 260-263 that saves the whole loaded run, with its new
\* log, in place of updating the log column alone.
LogStatusCallback_SaveRun(h, ok) ==
    /\ handler[h].pc = "process"
    /\ LET run_id == handler[h].run_id
           twilio_callback_log == [status |-> handler[h].status,
                                   duration |-> handler[h].duration]
           twilio_callback_logs == Append(LoadedCallbackLogs(handler[h].workflow_run),
                                          twilio_callback_log)
           loaded_logs == LogsAfterAppend(handler[h].workflow_run, twilio_callback_logs)
           next == AfterLog(handler[h].status, handler[h].workflow_run)
       IN  IF ~ok
           THEN /\ runs' = runs
                /\ handler' = [Finish(h, PersistenceError) EXCEPT
                       ![h].workflow_run.logs = loaded_logs]
           ELSE /\ runs' = [runs EXCEPT ![run_id] =
                               [handler[h].workflow_run EXCEPT
                                   !.logs = StatusCallbackLogs(twilio_callback_logs)]]
                /\ handler' = [handler EXCEPT
                       ![h].workflow_run.logs = loaded_logs,
                       ![h].calls = Append(@, UpdateLogsCall(run_id, twilio_callback_logs)),
                       ![h].pc = IF next = "return" THEN "done" ELSE next,
                       ![h].response = IF next = "return" THEN Response("success", "") ELSE @]
    /\ UNCHANGED <<request, conn, environ>>

\* lines 233-263: append the callback to the loaded run's log and persist it.
LogStatusCallback(h, ok) ==
    /\ handler[h].pc = "process"
    /\ LET run_id == handler[h].run_id
           twilio_callback_log == [status |-> handler[h].status,
                                   duration |-> handler[h].duration]
           twilio_callback_logs == Append(LoadedCallbackLogs(handler[h].workflow_run),
                                          twilio_callback_log)
           loaded_logs == LogsAfterAppend(handler[h].workflow_run, twilio_callback_logs)
           next == AfterLog(handler[h].status, handler[h].workflow_run)
       IN  IF ~ok
           THEN /\ runs' = runs
                /\ handler' = [Finish(h, PersistenceError) EXCEPT
                       ![h].workflow_run.logs = loaded_logs]
           ELSE /\ runs' = UpdateLogs(runs, run_id, twilio_callback_logs)
                /\ handler' = [handler EXCEPT
                       ![h].workflow_run.logs = loaded_logs,
                       ![h].calls = Append(@, UpdateLogsCall(run_id, twilio_callback_logs)),
                       ![h].pc = IF next = "return" THEN "done" ELSE next,
                       ![h].response = IF next = "return" THEN Response("success", "") ELSE @]
    /\ UNCHANGED <<request, conn, environ>>

\* lines 272-273 and 294-295: release the campaign's dialing slot.
ReleaseCallSlot(h, ok) ==
    /\ handler[h].pc = "release"
    /\ handler' = IF ~ok THEN Finish(h, DispatcherError)
                  ELSE [handler EXCEPT
                           ![h].calls = Append(@, ReleaseCall(handler[h].run_id)),
                           ![h].pc = AfterRelease(handler[h].status, handler[h].workflow_run)]
    /\ UNCHANGED <<runs, request, conn, environ>>

\* lines 276-278: mark the run completed (status "completed").
MarkCompleted(h, ok) ==
    /\ handler[h].pc = "mark"
    /\ IsCompletedStatus(handler[h].status)
    /\ LET next == AfterMarkCompleted(handler[h].workflow_run) IN
       IF ~ok
       THEN /\ runs' = runs
            /\ handler' = Finish(h, PersistenceError)
       ELSE /\ runs' = UpdateCompleted(runs, handler[h].run_id)
            /\ handler' = [handler EXCEPT
                   ![h].calls = Append(@, UpdateCompletedCall(handler[h].run_id)),
                   ![h].pc = IF next = "return" THEN "done" ELSE next,
                   ![h].response = IF next = "return" THEN Response("success", "") ELSE @]
    /\ UNCHANGED <<request, conn, environ>>

\* lines 281-288: publish "call completed" (status "completed", campaign run).
PublishCallCompleted(h, ok) ==
    /\ handler[h].pc = "publish"
    /\ IsCompletedStatus(handler[h].status)
    /\ LET workflow_run == handler[h].workflow_run
           call_duration == CallDuration(handler[h].duration)
       IN  IF ~call_duration.ok
           THEN handler' = Finish(h, Raised("ValueError"))
           ELSE IF ~ok
           THEN handler' = Finish(h, PublisherError)
           ELSE handler' = [handler EXCEPT
                    ![h].calls = Append(@, PublishCompletedCall(
                                     workflow_run.campaign_id, handler[h].run_id,
                                     workflow_run.queued_run_id, call_duration.value)),
                    ![h].pc = "done",
                    ![h].response = Response("success", "")]
    /\ UNCHANGED <<runs, request, conn, environ>>

\* lines 298-305: publish "retry needed" (busy / no-answer, campaign run).
PublishRetryNeeded(h, ok) ==
    /\ handler[h].pc = "publish"
    /\ ~IsCompletedStatus(handler[h].status)
    /\ LET workflow_run == handler[h].workflow_run IN
       handler' = IF ~ok THEN Finish(h, PublisherError) ELSE
       [handler EXCEPT
           ![h].calls = Append(@, PublishRetryCall(
                            handler[h].run_id, RetryReason(handler[h].status),
                            workflow_run.campaign_id, workflow_run.queued_run_id)),
           ![h].pc = "mark"]
    /\ UNCHANGED <<runs, request, conn, environ>>

\* lines 308-315: tag the run as not connected and mark it completed.
MarkFailed(h, ok) ==
    /\ handler[h].pc = "mark"
    /\ ~IsCompletedStatus(handler[h].status)
    /\ LET call_tags == LoadedCallTags(handler[h].workflow_run)
                            \o FailureTags(handler[h].status)
           \* extend() mutates the loaded list in place when the key exists
           extended == [handler EXCEPT
                  ![h].workflow_run.gathered_context =
                      IF ~@.is_none /\ "call_tags" \in @.keys
                      THEN TagsContext(call_tags) ELSE @]
       IN  IF ~ok
           THEN /\ runs' = runs
                /\ handler' = [extended EXCEPT ![h].pc = "done",
                                               ![h].response = PersistenceError]
           ELSE /\ runs' = UpdateCompletedWithTags(runs, handler[h].run_id, call_tags)
                /\ handler' = [extended EXCEPT
                       ![h].calls = Append(@, UpdateCompletedWithTagsCall(
                                               handler[h].run_id, call_tags)),
                       ![h].pc = "done",
                       ![h].response = Response("success", "")]
    /\ UNCHANGED <<request, conn, environ>>

----------------------------------------------------------------------------
(* The specification of the status-callback reconciler *)

\* The run the callbacks are about, as the campaign dispatcher or an
\* initiate-call request left it: with or without a campaign, with or without
\* tags gathered so far, its workflow configured (1), unconfigured (2) or
\* deleted (3).
InitialRun(w, campaign_id, queued_run_id, ctx) ==
    WorkflowRun(w, 1, 1000, "+15551234", campaign_id, queued_run_id, ctx)

InitialRuns ==
    { InitialRun(1, c[1], c[2], ctx) :
        c \in {<<None, None>>, <<7, 70>>},
        ctx \in {NoneContext, TagsContext(<<Chars("vip")>>)} }
    \cup { InitialRun(2, 7, 70, EmptyContext),
           InitialRun(3, None, None, TagsContext(<<Chars("vip")>>)) }

\* An initiate-call request that has not arrived yet.
IdleRequest ==
    [ pc              |-> "idle",
      user            |-> [id |-> None, selected_organization_id |-> None,
                           test_phone_number |-> NoneStr],
      workflow_id     |-> None,
      provider        |-> NoTelephonyConfig,   \* the provider of line 67, by its configuration
      given_run_id    |-> None,      \* request.workflow_run_id
      workflow_run_id |-> None,      \* the local of line 78, reassigned at line 91
      created         |-> <<>>,      \* ids of the runs it had create_workflow_run make
      calls           |-> <<>>,      \* provider.initiate_call invocations
      response        |-> NoResponse ]

\* A websocket connection that has not been opened yet.
IdleConnection ==
    [ pc              |-> "idle",
      workflow_run_id |-> None,
      frames          |-> <<>>,      \* the frames receive_text has returned
      current_run_id  |-> None,      \* argument of set_current_run_id, None if not called
      pipeline        |-> <<>>,      \* run_pipeline_twilio invocations
      closes          |-> <<>> ]     \* codes of the websocket.close calls

Init ==
    /\ runs \in { [id \in {1} |-> r] : r \in InitialRuns }
    /\ handler = [h \in Handlers |-> IdleHandler]
    /\ request = [q \in 1..NumRequests |-> IdleRequest]
    /\ conn = [c \in 1..NumConnections |-> IdleConnection]
    /\ environ = Environ

Next ==
    \E h \in Handlers :
        \/ \E id \in CallbackRunIds, data \in Payloads, sig \in Signatures :
               ReceiveCallback(h, id, data, sig)
        \/ VerifySignature(h)
        \/ \E ok \in BOOLEAN : LogStatusCallback(h, ok)
        \/ \E ok \in BOOLEAN : ReleaseCallSlot(h, ok)
        \/ \E ok \in BOOLEAN : MarkCompleted(h, ok)
        \/ \E ok \in BOOLEAN : PublishCallCompleted(h, ok)
        \/ \E ok \in BOOLEAN : PublishRetryNeeded(h, ok)
        \/ \E ok \in BOOLEAN : MarkFailed(h, ok)

Spec == Init /\ [][Next]_vars


----------------------------------------------------------------------------
(* initiate_call *)

Requests == 1..NumRequests

\* The session users: user 1 and user 2 belong to the configured organization
\* 1 (user 2 has no test phone number), user 3 to organization 3, whose
\* auth_token is blank, user 4 to organization 2, which has no configuration,
\* and user 5 has selected no organization (the environment configures it).
User(id, organization_id, phone) ==
    [id |-> id, selected_organization_id |-> organization_id, test_phone_number |-> phone]

Users ==
    { User(1, 1, "+15551234"), User(2, 1, ""),
      User(3, 3, "+15553333"), User(4, 2, "+15554444"), User(5, None, "+15555555") }

\* request.workflow_run_id: absent, a run of user 1, a run of user 2, no run.
GivenRunIds == {None, 1, 2, 9}

\* random.randint(1000, 9999): both ends of the range.
RunNameNumbers == {1000, 9999}

\* db_client.get_workflow_run(run_id, user_id): the run, if it is that user's.
UserRunExists(store, run_id, user_id) ==
    run_id \in DOMAIN store /\ store[run_id].user_id = user_id

\* db_client.create_workflow_run: the id the store gives the new run.
NewRunId(store) ==
    1 + (CHOOSE m \in DOMAIN store \cup {0} : \A i \in DOMAIN store : i <= m)

CreateWorkflowRun(store, name, workflow_id, phone, user_id) ==
    [id \in DOMAIN store \cup {NewRunId(store)} |->
        IF id \in DOMAIN store THEN store[id]
        ELSE WorkflowRun(workflow_id, user_id, name, phone, None, None, NoneContext)]

\* lines 103-109: the query parameters of the webhook URL.
WebhookUrl(workflow_id, user_id, workflow_run_id, organization_id) ==
    [ workflow_id |-> workflow_id, user_id |-> user_id,
      workflow_run_id |-> workflow_run_id, organization_id |-> organization_id ]

\* A variant of line 80 that creates a run for every request.
CreatesRun_Always(workflow_run_id) == TRUE

\* line 80: `if not workflow_run_id`
CreatesRun(workflow_run_id) == workflow_run_id = None

\* line 98: `if not user_configuration.test_phone_number`
PhoneNumberMissing(phone) == ~Truthy(phone)

HttpError(detail) == Response("400", detail)

\* lines 66-74: acquire the provider and validate its configuration.
AcquireProvider(q, user, workflow_id, given_run_id) ==
    /\ request[q].pc = "idle"
    /\ q > 1 => request[q - 1].pc /= "idle"
    /\ LET arrived == [request[q] EXCEPT
                          !.user = user, !.workflow_id = workflow_id,
                          !.given_run_id = given_run_id,
                          !.workflow_run_id = given_run_id]
           provider == GetTelephonyProvider(user.selected_organization_id, environ)
       IN  request' = [request EXCEPT ![q] =
               IF ~provider.ok
               THEN [arrived EXCEPT !.pc = "done", !.response = Raised(provider.error)]
               ELSE IF ~ValidateConfig(provider.config)
               THEN [arrived EXCEPT !.pc = "done", !.provider = provider.config,
                                    !.response = HttpError("telephony_not_configured")]
               ELSE [arrived EXCEPT !.pc = "run", !.provider = provider.config]]
    /\ UNCHANGED <<runs, handler, conn, environ>>

\* lines 76-96: create the run, or load the one the request names.
CreateOrLoadRun(q, number) ==
    /\ request[q].pc = "run"
    /\ LET user == request[q].user IN
       IF CreatesRun(request[q].workflow_run_id)
       THEN /\ runs' = CreateWorkflowRun(runs, number, request[q].workflow_id,
                                         user.test_phone_number, user.id)
            /\ request' = [request EXCEPT
                   ![q].workflow_run_id = NewRunId(runs),
                   ![q].created = Append(@, NewRunId(runs)),
                   ![q].pc = "call"]
       ELSE /\ runs' = runs
            /\ request' = [request EXCEPT ![q] =
                   IF ~UserRunExists(runs, request[q].workflow_run_id, user.id)
                   THEN [@ EXCEPT !.pc = "done",
                                  !.response = HttpError("Workflow run not found")]
                   ELSE [@ EXCEPT !.pc = "call"]]
    /\ UNCHANGED <<handler, conn, environ>>

\* lines 98-120: check the destination number and place the call; the
\* carrier accepts it or provider.initiate_call raises.
PlaceCall(q, accepted) ==
    /\ request[q].pc = "call"
    /\ LET user == request[q].user
           webhook_url == WebhookUrl(request[q].workflow_id, user.id,
                              request[q].workflow_run_id, user.selected_organization_id)
           placed == [to_number |-> user.test_phone_number,
                      webhook_url |-> webhook_url,
                      workflow_run_id |-> request[q].workflow_run_id]
       IN  request' = [request EXCEPT ![q] =
               IF PhoneNumberMissing(user.test_phone_number)
               THEN [@ EXCEPT !.pc = "done",
                              !.response = HttpError("Test phone number not set")]
               ELSE [@ EXCEPT !.pc = "done",
                              !.calls = Append(@, placed),
                              !.response = IF accepted THEN Response("200", "Call initiated")
                                           ELSE Raised("ProviderError")]]
    /\ UNCHANGED <<runs, handler, conn, environ>>

\* The store when the requests arrive: run 1 is user 1's, run 2 is user 2's.
InitCall ==
    /\ runs = [id \in {1, 2} |->
                  WorkflowRun(1, id, 1000, "+15551234", None, None, NoneContext)]
    /\ handler = [h \in Handlers |-> IdleHandler]
    /\ request = [q \in Requests |-> IdleRequest]
    /\ conn = [c \in 1..NumConnections |-> IdleConnection]
    /\ environ = Environ

NextCall ==
    \E q \in Requests :
        \/ \E user \in Users, given \in GivenRunIds : AcquireProvider(q, user, 1, given)
        \/ \E number \in RunNameNumbers : CreateOrLoadRun(q, number)
        \/ \E accepted \in BOOLEAN : PlaceCall(q, accepted)

SpecCall == InitCall /\ [][NextCall]_vars

\* initiate_call in every environment of Environs.
InitConfig ==
    /\ runs = [id \in {1, 2} |->
                  WorkflowRun(1, id, 1000, "+15551234", None, None, NoneContext)]
    /\ handler = [h \in Handlers |-> IdleHandler]
    /\ request = [q \in Requests |-> IdleRequest]
    /\ conn = [c \in 1..NumConnections |-> IdleConnection]
    /\ environ \in Environs

SpecConfig == InitConfig /\ [][NextCall]_vars


----------------------------------------------------------------------------
(* websocket_endpoint *)

Connections == 1..NumConnections

\* A text frame as json.loads sees it: whether it parses, whether it is an
\* object, its "event" member (NoneStr if absent), and its "start" member:
\* absent, null, or an object holding some of streamSid and callSid.
Frame(is_json, is_object, event, start, start_keys) ==
    [ is_json |-> is_json, is_object |-> is_object, event |-> event,
      start |-> start, start_keys |-> start_keys ]

EventFrame(event) == Frame(TRUE, TRUE, event, "absent", {})
StartFrame(start_keys) == Frame(TRUE, TRUE, "start", "object", start_keys)

\* First frames: the expected one, a "start" sent first, an object without
\* "event", a JSON array, and text that is not JSON.
FirstFrames ==
    { EventFrame("connected"), EventFrame("start"), EventFrame(NoneStr),
      StartFrame({"streamSid", "callSid"}),
      Frame(TRUE, FALSE, NoneStr, "absent", {}),
      Frame(FALSE, FALSE, NoneStr, "absent", {}) }

\* Second frames: a full "start", "start" frames lacking one or both ids or
\* the "start" object, a "start" whose "start" member is null, a second
\* "connected", a "media" frame, and text that is not JSON.
SecondFrames ==
    { StartFrame(ks) : ks \in SUBSET {"streamSid", "callSid"} }
    \cup { EventFrame("start"),
           Frame(TRUE, TRUE, "start", "null", {}),
           EventFrame("connected"), EventFrame("media"),
           Frame(FALSE, FALSE, NoneStr, "absent", {}) }

\* A variant of lines 155-157 and 167-169 that parses the frame and does not
\* compare its event tag.
ExpectEvent_ParseOnly(frame, expected) ==
    IF ~frame.is_json THEN "JSONDecodeError"
    ELSE IF ~frame.is_object THEN "AttributeError"
    ELSE "ok"

\* The outcome of `json.loads(text)` followed by `msg.get("event") != expected`:
\* "ok", or the exception raised (line 155-157, 167-169).
ExpectEvent(frame, expected) ==
    IF ~frame.is_json THEN "JSONDecodeError"
    ELSE IF ~frame.is_object THEN "AttributeError"
    ELSE IF frame.event /= expected THEN "RuntimeError"
    ELSE "ok"

\* lines 172-173: start_msg["start"]["streamSid"], start_msg["start"]["callSid"]
ExtractSids(frame) ==
    IF frame.start = "absent" THEN "KeyError"
    ELSE IF frame.start = "null" THEN "TypeError"
    ELSE IF "streamSid" \notin frame.start_keys THEN "KeyError"
    ELSE IF "callSid" \notin frame.start_keys THEN "KeyError"
    ELSE "ok"

\* line 174: `except KeyError`
IsBadHandshake(outcome) == outcome = "KeyError"

\* close codes of lines 178 and 187
BadHandshakeCode == 4400
InternalErrorCode == 1011

\* lines 185-187: the handler of every other exception
CloseOnError(c) ==
    [conn EXCEPT ![c].closes = Append(@, InternalErrorCode), ![c].pc = "done"]

\* line 151: accept the connection.
Accept(c, workflow_run_id) ==
    /\ conn[c].pc = "idle"
    /\ c > 1 => conn[c - 1].pc /= "idle"
    /\ conn' = [conn EXCEPT ![c].pc = "await_connected",
                            ![c].workflow_run_id = workflow_run_id]
    /\ UNCHANGED <<runs, handler, request, environ>>

\* lines 155-157: the first frame must be "connected".
ReceiveConnected(c, frame) ==
    /\ conn[c].pc = "await_connected"
    /\ conn' = IF ExpectEvent(frame, "connected") = "ok"
               THEN [conn EXCEPT ![c].frames = Append(@, frame),
                                 ![c].pc = "await_start"]
               ELSE [CloseOnError(c) EXCEPT ![c].frames = Append(@, frame)]
    /\ UNCHANGED <<runs, handler, request, environ>>

\* lines 160-184: the second frame; bind the run id, check the frame, and hand
\* the socket to the pipeline.
ReceiveStart(c, frame) ==
    /\ conn[c].pc = "await_start"
    /\ LET bound == [conn EXCEPT ![c].frames = Append(@, frame),
                                 ![c].current_run_id = conn[c].workflow_run_id]
           sids == ExtractSids(frame)
       IN  conn' =
             IF ExpectEvent(frame, "start") /= "ok"
             THEN [bound EXCEPT ![c].closes = Append(@, InternalErrorCode),
                                ![c].pc = "done"]
             ELSE IF IsBadHandshake(sids)
             THEN [bound EXCEPT ![c].closes = Append(@, BadHandshakeCode),
                                ![c].pc = "done"]
             ELSE IF sids /= "ok"
             THEN [bound EXCEPT ![c].closes = Append(@, InternalErrorCode),
                                ![c].pc = "done"]
             ELSE [bound EXCEPT ![c].pipeline = Append(@, conn[c].workflow_run_id),
                                ![c].pc = "pipeline"]
    /\ UNCHANGED <<runs, handler, request, environ>>

\* The client goes away while the handler waits for a frame: receive_text
\* raises WebSocketDisconnect (lines 155, 160).
Disconnect(c) ==
    /\ conn[c].pc \in {"await_connected", "await_start"}
    /\ conn' = CloseOnError(c)
    /\ UNCHANGED <<runs, handler, request, environ>>

\* lines 182-187: the pipeline returns, or raises.
PipelineEnds(c, raised) ==
    /\ conn[c].pc = "pipeline"
    /\ conn' = IF raised THEN CloseOnError(c) ELSE [conn EXCEPT ![c].pc = "done"]
    /\ UNCHANGED <<runs, handler, request, environ>>

InitWs ==
    /\ runs = [id \in {1} |-> InitialRun(1, None, None, NoneContext)]
    /\ handler = [h \in Handlers |-> IdleHandler]
    /\ request = [q \in Requests |-> IdleRequest]
    /\ conn = [c \in Connections |-> IdleConnection]
    /\ environ = Environ

NextWs ==
    \E c \in Connections :
        \/ \E id \in {1, 9} : Accept(c, id)
        \/ \E frame \in FirstFrames : ReceiveConnected(c, frame)
        \/ \E frame \in SecondFrames : ReceiveStart(c, frame)
        \/ Disconnect(c)
        \/ \E raised \in BOOLEAN : PipelineEnds(c, raised)

SpecWs == InitWs /\ [][NextWs]_vars


----------------------------------------------------------------------------
(* Observations on the status-callback handlers *)

\* The calls with name `op` that handler h has made.
CallsOf(h, op) ==
    { i \in DOMAIN handler[h].calls : handler[h].calls[i].op = op }

\* The calls with name `op` made for run `run_id` by any handler.
CallsFor(run_id, op) ==
    { <<h, i>> \in Handlers \X (1..8) :
        /\ i \in DOMAIN handler[h].calls
        /\ handler[h].calls[i].op = op
        /\ handler[h].calls[i].run_id = run_id }

\* h has returned {"status": "success"}: the callback was accepted and
\* processed to the end.
Accepted(h) ==
    handler[h].pc = "done" /\ handler[h].response = Response("success", "")

\* h handles a callback for a run of the store that belongs to a campaign.
CampaignLinked(h) ==
    /\ handler[h].run_id \in DOMAIN runs
    /\ runs[handler[h].run_id].campaign_id /= None

\* No handler has called a collaborator that changes state.
NoCallsMade == \A h \in Handlers : handler[h].calls = <<>>

\* Run 1 is as the specification's initial state has it, apart from its tags.
FailureTagNames ==
    { Chars("not_connected") } \cup
    { Chars("telephony_") \o Chars(st) : st \in Statuses }

Untouched(run) ==
    /\ ~run.is_completed
    /\ run.logs = NoLogs
    /\ \A i \in DOMAIN run.gathered_context.call_tags :
           run.gathered_context.call_tags[i] \notin FailureTagNames

----------------------------------------------------------------------------
(* C1 *)

\* C1: for a campaign-linked run, however many terminal callbacks are
\* delivered and however they interleave, release_call_slot is called at most
\* once and at most one campaign event is published for the run.
C1_TerminalCallbacksIdempotent ==
    \A id \in DOMAIN runs :
        runs[id].campaign_id /= None =>
            /\ Cardinality(CallsFor(id, "release_call_slot")) <= 1
            /\ Cardinality(CallsFor(id, "publish_call_completed")
                           \cup CallsFor(id, "publish_retry_needed")) <= 1

----------------------------------------------------------------------------
(* C2 *)

\* C2: an accepted "completed" callback on a campaign-linked run has made
\* exactly one release_call_slot(run_id) call and exactly one
\* publish_call_completed call, which carries the run's campaign_id, the run
\* id and the run's queued_run_id, has published no retry, and leaves the
\* run's is_completed true.
C2_CompletedCampaignCallback ==
    \A h \in Handlers :
        (Accepted(h) /\ handler[h].status = "completed" /\ CampaignLinked(h)) =>
            LET id == handler[h].run_id
                released  == CallsOf(h, "release_call_slot")
                published == CallsOf(h, "publish_call_completed")
            IN  /\ Cardinality(released) = 1
                /\ \A i \in released : handler[h].calls[i].run_id = id
                /\ Cardinality(published) = 1
                /\ \A i \in published :
                       /\ handler[h].calls[i].campaign_id = runs[id].campaign_id
                       /\ handler[h].calls[i].run_id = id
                       /\ handler[h].calls[i].queued_run_id = runs[id].queued_run_id
                /\ CallsOf(h, "publish_retry_needed") = {}
                /\ runs[id].is_completed

C2_Witness ==
    \E h \in Handlers :
        /\ Accepted(h) /\ handler[h].status = "completed" /\ CampaignLinked(h)
        /\ handler[h].duration = "37"
        /\ runs[handler[h].run_id].campaign_id = 7

----------------------------------------------------------------------------
(* C3 *)

\* C3: an accepted "no-answer" or "busy" callback on a campaign-linked run has
\* made exactly one release_call_slot call and exactly one
\* publish_retry_needed call, whose reason is the status with "_" for "-"
\* ("no_answer", "busy"); its completion update writes call_tags that end with
\* "not_connected" and "telephony_<status>"; and the run is completed.
C3_Reason(status) ==
    IF status = "no-answer" THEN <<"n","o","_","a","n","s","w","e","r">>
    ELSE <<"b","u","s","y">>

C3_StatusTag(status) ==
    IF status = "no-answer"
    THEN <<"t","e","l","e","p","h","o","n","y","_","n","o","-","a","n","s","w","e","r">>
    ELSE <<"t","e","l","e","p","h","o","n","y","_","b","u","s","y">>

C3_RetryCampaignCallback ==
    \A h \in Handlers :
        (Accepted(h) /\ handler[h].status \in {"no-answer", "busy"} /\ CampaignLinked(h)) =>
            LET id == handler[h].run_id
                released  == CallsOf(h, "release_call_slot")
                published == CallsOf(h, "publish_retry_needed")
                last      == handler[h].calls[Len(handler[h].calls)]
                n         == Len(last.call_tags)
            IN  /\ Cardinality(released) = 1
                /\ \A i \in released : handler[h].calls[i].run_id = id
                /\ Cardinality(published) = 1
                /\ \A i \in published :
                       /\ handler[h].calls[i].reason = C3_Reason(handler[h].status)
                       /\ handler[h].calls[i].run_id = id
                       /\ handler[h].calls[i].campaign_id = runs[id].campaign_id
                       /\ handler[h].calls[i].queued_run_id = runs[id].queued_run_id
                /\ CallsOf(h, "publish_call_completed") = {}
                /\ last.op = "update_workflow_run"
                /\ last.fields = {"is_completed", "gathered_context"}
                /\ n >= 2
                /\ last.call_tags[n - 1] = Chars("not_connected")
                /\ last.call_tags[n] = C3_StatusTag(handler[h].status)
                /\ runs[id].is_completed
                /\ "call_tags" \in runs[id].gathered_context.keys
                /\ \E i \in DOMAIN runs[id].gathered_context.call_tags :
                       runs[id].gathered_context.call_tags[i] = Chars("not_connected")

C3_Witness ==
    \E h \in Handlers :
        /\ Accepted(h) /\ handler[h].status = "no-answer" /\ CampaignLinked(h)
        /\ runs[handler[h].run_id].gathered_context.call_tags =
               << Chars("vip"), Chars("not_connected"), C3_StatusTag("no-answer") >>


----------------------------------------------------------------------------
(* C4 *)

\* C4: a callback whose signature failed verification has returned
\* {status: error, reason: invalid_signature} and has called neither the
\* store's update nor the dispatcher nor the publisher; as long as no handler
\* has made such a call, every run is not completed, has an empty callback log
\* and no failure tag.
C4_InvalidSignatureNoEffect ==
    /\ \A h \in Handlers :
           handler[h].is_valid = "invalid" =>
               /\ handler[h].pc = "done"
               /\ handler[h].response = Response("error", "invalid_signature")
               /\ handler[h].calls = <<>>
    /\ NoCallsMade => \A id \in DOMAIN runs : Untouched(runs[id])

C4_Witness ==
    /\ \E h \in Handlers :
           /\ handler[h].signature = "sig-bad"
           /\ handler[h].is_valid = "invalid"
           /\ handler[h].status = "completed"
           /\ handler[h].response = Response("error", "invalid_signature")
    /\ \A h \in Handlers : handler[h].pc = "done"
    /\ Untouched(runs[1])

----------------------------------------------------------------------------
(* C5 *)

\* C5: a callback for a run id the store does not know has returned
\* {status: ignored}, whatever its payload and signature header, and has
\* called neither the store's update nor the dispatcher nor the publisher.
C5_UnknownRunIgnored ==
    \A h \in Handlers :
        (handler[h].pc /= "idle" /\ handler[h].run_id \notin DOMAIN runs) =>
            /\ handler[h].pc = "done"
            /\ handler[h].response.status = "ignored"
            /\ handler[h].calls = <<>>
            /\ handler[h].is_valid = "unset"

C5_Witness ==
    /\ \E h \in Handlers :
           /\ handler[h].run_id = 9
           /\ handler[h].signature = "sig-bad"
           /\ handler[h].status = "completed"
           /\ handler[h].response.status = "ignored"
    /\ \A h \in Handlers : handler[h].pc = "done" /\ handler[h].run_id = 9
    /\ Untouched(runs[1])

----------------------------------------------------------------------------
(* C6 *)

TerminalStatuses == {"completed", "failed", "busy", "no-answer", "canceled"}

\* C6: an accepted callback whose status is none of completed, failed, busy,
\* no-answer, canceled has made exactly one call, the log update, whose log is
\* the loaded one with this callback's entry appended; and as long as only
\* such callbacks have been received, the run is not completed and has no
\* failure tag, with or without a campaign.
C6_OtherStatusLogsOnly ==
    /\ \A h \in Handlers :
           (Accepted(h) /\ handler[h].status \notin TerminalStatuses) =>
               /\ Len(handler[h].calls) = 1
               /\ handler[h].calls[1].op = "update_workflow_run"
               /\ handler[h].calls[1].fields = {"logs"}
               /\ handler[h].calls[1].run_id = handler[h].run_id
               /\ handler[h].calls[1].logs =
                      (IF "twilio_status_callbacks" \in handler[h].workflow_run.logs.keys
                       THEN handler[h].workflow_run.logs.twilio_status_callbacks
                       ELSE << [status |-> handler[h].status,
                                duration |-> handler[h].duration] >>)
               /\ Len(handler[h].calls[1].logs) >= 1
               /\ handler[h].calls[1].logs[Len(handler[h].calls[1].logs)].status
                      = handler[h].status
    /\ (\A h \in Handlers : handler[h].status \notin TerminalStatuses) =>
           \A id \in DOMAIN runs :
               /\ ~runs[id].is_completed
               /\ \A i \in DOMAIN runs[id].gathered_context.call_tags :
                      runs[id].gathered_context.call_tags[i] \notin FailureTagNames

C6_Witness ==
    /\ \E h \in Handlers :
           /\ Accepted(h) /\ handler[h].status = "ringing" /\ CampaignLinked(h)
           /\ runs[handler[h].run_id].logs =
                  StatusCallbackLogs(<<[status |-> "ringing", duration |-> NoneStr]>>)
    /\ \A h \in Handlers : handler[h].status \notin TerminalStatuses
    /\ ~runs[1].is_completed

----------------------------------------------------------------------------
(* C7 *)

\* The handlers that have persisted their log entry.
Logged(run_id) ==
    { h \in Handlers : handler[h].run_id = run_id
                       /\ CallsOf(h, "update_workflow_run") /= {} }

\* C7: once the callbacks for a run have all finished, the persisted log
\* holds one entry for each callback that was logged.
C7_LogKeepsEveryCallback ==
    (\A h \in Handlers : handler[h].pc \in {"idle", "done"}) =>
        \A id \in DOMAIN runs :
            Len(runs[id].logs.twilio_status_callbacks) = Cardinality(Logged(id))


----------------------------------------------------------------------------
(* C8 *)

\* The runs that initiate-call requests have had the store create.
CreatedRuns == { <<q, i>> \in Requests \X (1..2) : i \in DOMAIN request[q].created }

\* The provider of the request's tenant was acquired and its configuration
\* is valid (lines 67-74 passed).
ProviderReady(q) ==
    LET provider == GetTelephonyProvider(request[q].user.selected_organization_id, environ)
    IN  provider.ok /\ ValidateConfig(provider.config)

\* C8: a request that names a workflow_run_id creates no WorkflowRun: it
\* places its call for the named run, or, when that run is not in the store
\* for its user, fails with "Workflow run not found" and places no call.  A
\* request without workflow_run_id that succeeds has created exactly one
\* WorkflowRun, whose initial_context holds the destination number.  The
\* store holds the two initial runs and the created ones, nothing else.
C8_RunCreatedOnlyWithoutId ==
    /\ \A q \in Requests :
           request[q].given_run_id /= None =>
               /\ request[q].created = <<>>
               /\ \A i \in DOMAIN request[q].calls :
                      request[q].calls[i].workflow_run_id = request[q].given_run_id
               /\ (request[q].pc = "done" /\ ProviderReady(q)
                   /\ ~UserRunExists(runs, request[q].given_run_id, request[q].user.id)) =>
                      /\ request[q].response = Response("400", "Workflow run not found")
                      /\ request[q].calls = <<>>
    /\ \A q \in Requests :
           (request[q].pc = "done" /\ request[q].given_run_id = None
            /\ request[q].response.status = "200") =>
               /\ Len(request[q].created) = 1
               /\ request[q].created[1] \in DOMAIN runs
               /\ runs[request[q].created[1]].initial_context.phone_number
                      = request[q].user.test_phone_number
               /\ request[q].user.test_phone_number \notin {"", NoneStr}
               /\ runs[request[q].created[1]].user_id = request[q].user.id
    /\ Cardinality(DOMAIN runs) = 2 + Cardinality(CreatedRuns)

C8_Witness ==
    \E q1, q2 \in Requests :
        /\ request[q1].pc = "done" /\ request[q1].given_run_id = 1
        /\ request[q1].response.status = "200"
        /\ request[q1].calls /= <<>>
        /\ request[q2].pc = "done" /\ request[q2].given_run_id = None
        /\ request[q2].response.status = "200"
        /\ DOMAIN runs = {1, 2, 3}
        /\ runs[3].initial_context.phone_number = "+15551234"

----------------------------------------------------------------------------
(* C9 *)

\* The frame is a JSON object whose "event" member is `event`.
CarriesEvent(frame, event) ==
    frame.is_json /\ frame.is_object /\ frame.event = event

\* C9: when the first frame received does not carry the event tag
\* "connected", the pipeline is never invoked on the connection and the socket
\* is closed once, with code 1011.
C9_FirstFrameMustBeConnected ==
    \A c \in Connections :
        (Len(conn[c].frames) >= 1 /\ ~CarriesEvent(conn[c].frames[1], "connected")) =>
            /\ conn[c].pc = "done"
            /\ Len(conn[c].frames) = 1
            /\ conn[c].pipeline = <<>>
            /\ conn[c].closes = <<1011>>

C9_Witness ==
    \E c \in Connections :
        /\ conn[c].frames = <<EventFrame("start")>>
        /\ conn[c].closes = <<1011>>
        /\ conn[c].pipeline = <<>>

----------------------------------------------------------------------------
(* C10 *)

\* The frame is a "start" message without start.streamSid or start.callSid.
LacksSids(frame) ==
    /\ CarriesEvent(frame, "start")
    /\ \/ frame.start /= "object"
       \/ "streamSid" \notin frame.start_keys
       \/ "callSid" \notin frame.start_keys

\* C10: after "connected", a "start" message that lacks
\* start.streamSid or start.callSid gets the socket closed with code 4400
\* exactly once and with no other code, and no pipeline is invoked.
C10_MissingSidsClose4400 ==
    \A c \in Connections :
        (Len(conn[c].frames) = 2 /\ LacksSids(conn[c].frames[2])) =>
            /\ conn[c].closes = <<4400>>
            /\ conn[c].pipeline = <<>>

----------------------------------------------------------------------------
(* C11 *)

\* The payloads the endpoint may answer with.
StatusPayloads == {"success", "ignored", "error"}

\* C11: the status-callback endpoint never raises: every handler that has
\* ended, whatever the payload, the signature header and the outcome of its
\* collaborators, has returned a payload whose status is success, ignored or
\* error, and none has ended with an exception.
C11_CallbackNeverRaises ==
    \A h \in Handlers :
        handler[h].pc = "done" => handler[h].response.status \in StatusPayloads

----------------------------------------------------------------------------
(* C12 *)

\* The integer a duration field stands for: its decimal value when it is a
\* number, 0 when it is absent, empty or not a number.
DurationOrZero(duration) ==
    CASE duration \in {"37", " 37"} -> 37
      [] duration = "-5" -> -5
      [] OTHER -> 0

\* h handled a "completed" callback for a campaign run and has come to the
\* point of publishing: the run is marked, and the publisher did not fail.
ReachedPublish(h) ==
    /\ handler[h].pc = "done"
    /\ handler[h].status = "completed"
    /\ HasCampaign(handler[h].workflow_run)
    /\ \E i \in CallsOf(h, "update_workflow_run") :
           handler[h].calls[i].fields = {"is_completed"}
    /\ handler[h].response /= PublisherError

\* C12: the "call completed" event is published whatever the duration field
\* holds, and the duration it carries is the decimal value of the field when
\* that parses ("37" gives 37) and 0 when the field is absent, empty or
\* unparseable.
C12_DurationPublishedAsInteger ==
    \A h \in Handlers :
        ReachedPublish(h) =>
            /\ Cardinality(CallsOf(h, "publish_call_completed")) = 1
            /\ \A i \in CallsOf(h, "publish_call_completed") :
                   handler[h].calls[i].call_duration = DurationOrZero(handler[h].duration)

----------------------------------------------------------------------------
(* C13 *)

\* Every credential field the twilio provider requires is present and
\* non-empty: account sid, auth token, and at least one originating number.
CredentialsComplete(config) ==
    /\ Truthy(config.account_sid)
    /\ Truthy(config.auth_token)
    /\ config.from_numbers /= <<>>
    /\ \A i \in DOMAIN config.from_numbers : Truthy(config.from_numbers[i])

\* Request q had its configuration resolved (load_telephony_config returned).
Resolved(q) == request[q].provider /= NoTelephonyConfig

\* C13: a configuration that resolution returned, from the tenant store or
\* from the environment, has every credential field the provider requires;
\* when one is missing or empty, resolution fails and returns none.
C13_ResolvedConfigComplete ==
    \A q \in Requests : Resolved(q) => CredentialsComplete(request[q].provider)

----------------------------------------------------------------------------
(* C14 *)

\* Request q comes from a user whose test phone number is blank.
BlankPhoneRequest(q) ==
    /\ request[q].pc /= "idle"
    /\ PhoneNumberMissing(request[q].user.test_phone_number)

\* C14: a request of a user whose destination phone number is blank fails
\* before a run is created: it has created no WorkflowRun and has not invoked
\* provider.initiate_call, and when it answers "Test phone number not set"
\* that is still so.
C14_BlankPhoneFailsBeforeRunCreation ==
    \A q \in Requests :
        BlankPhoneRequest(q) =>
            /\ request[q].created = <<>>
            /\ request[q].calls = <<>>

----------------------------------------------------------------------------
(* C15 *)

\* C15: a handler whose callback carried a signature header and that has
\* changed state (a log append, a completion, a slot release or a publish)
\* had the signature verified as valid by the owning tenant's provider
\* before; a present signature is never left unverified while the callback
\* is processed.
C15_PresentSignatureVerified ==
    \A h \in Handlers :
        (SignatureGiven(handler[h].signature) /\ handler[h].calls /= <<>>)
            => handler[h].is_valid = "valid"

----------------------------------------------------------------------------
(* C16 *)

\* The handshake of connection c succeeded: "connected", then a "start"
\* message with both ids, and the socket was handed to the pipeline.
HandshakeSucceeded(c) == conn[c].pipeline /= <<>>

\* C16: set_current_run_id is called only on a successful handshake: a
\* connection whose second message is not a "start" event, is not JSON, or
\* lacks streamSid or callSid has no run id bound.
C16_RunIdBoundOnlyAfterHandshake ==
    \A c \in Connections :
        conn[c].current_run_id /= None => HandshakeSucceeded(c)

----------------------------------------------------------------------------
(* C17 *)

\* The statuses after which the campaign layer is asked to requeue.
RetryStatuses == {"busy", "no-answer"}

\* The campaign events h has published, of either kind.
EventsOf(h) ==
    CallsOf(h, "publish_call_completed") \cup CallsOf(h, "publish_retry_needed")

\* C17: a "retry needed" event is published only for status busy or no-answer
\* on a campaign-linked run; an accepted callback has published exactly one
\* when that is the case and none otherwise; an accepted failed or canceled
\* callback on a campaign-linked run has released the slot exactly once and
\* published no event of either kind.
C17_RetryIffBusyOrNoAnswerInCampaign ==
    \A h \in Handlers :
        /\ CallsOf(h, "publish_retry_needed") /= {} =>
               handler[h].status \in RetryStatuses /\ CampaignLinked(h)
        /\ Accepted(h) =>
               Cardinality(CallsOf(h, "publish_retry_needed")) =
                   (IF handler[h].status \in RetryStatuses /\ CampaignLinked(h)
                    THEN 1 ELSE 0)
        /\ (Accepted(h) /\ handler[h].status \in {"failed", "canceled"}
                        /\ CampaignLinked(h)) =>
               /\ Cardinality(CallsOf(h, "release_call_slot")) = 1
               /\ EventsOf(h) = {}

\* Two callbacks for a campaign-linked run were accepted: a busy one that
\* published its retry, and a failed one that released the slot and
\* published nothing.
C17_Witness ==
    \E h1, h2 \in Handlers :
        /\ Accepted(h1) /\ handler[h1].status = "busy" /\ CampaignLinked(h1)
        /\ Cardinality(CallsOf(h1, "publish_retry_needed")) = 1
        /\ Accepted(h2) /\ handler[h2].status = "failed" /\ CampaignLinked(h2)
        /\ Cardinality(CallsOf(h2, "release_call_slot")) = 1
        /\ EventsOf(h2) = {}

----------------------------------------------------------------------------
(* C18 *)

\* h handles a callback for a run of the store that belongs to no campaign.
NotCampaignLinked(h) ==
    /\ handler[h].run_id \in DOMAIN runs
    /\ runs[handler[h].run_id].campaign_id = None

\* This step is the one in which h returns {"status": "success"}.
Accepts(h) ==
    /\ handler[h].pc /= "done"
    /\ handler'[h].pc = "done"
    /\ handler'[h].response = Response("success", "")

\* The tags a failure status adds.
NotConnectedTags(status) ==
    << Chars("not_connected"), Chars("telephony_") \o Chars(status) >>

\* C18: when a callback with status completed, failed, busy, no-answer or
\* canceled is accepted for a run without campaign_id, the handler has called
\* neither release_call_slot nor the publisher and the run is marked
\* completed; for the four failure statuses the run's call_tags are then the
\* tags of the run as the handler found it followed by "not_connected" and
\* "telephony_<status>".
C18_NonCampaignRunCompletedAndTagged ==
    [][ \A h \in Handlers :
          (Accepts(h) /\ NotCampaignLinked(h) /\ handler[h].status \in TerminalStatuses) =>
              LET run_id == handler[h].run_id
                  found  == handler[h].workflow_run.gathered_context.call_tags
              IN  /\ CallsOf(h, "release_call_slot")' = {}
                  /\ EventsOf(h)' = {}
                  /\ runs'[run_id].is_completed
                  /\ handler[h].status /= "completed" =>
                         runs'[run_id].gathered_context.call_tags =
                             found \o NotConnectedTags(handler[h].status)
      ]_vars

\* A "no-answer" callback was accepted for a run without campaign that
\* carried the tag "vip": the run is completed and holds the three tags.
C18_Witness ==
    \E h \in Handlers :
        /\ Accepted(h) /\ NotCampaignLinked(h) /\ handler[h].status = "no-answer"
        /\ runs[handler[h].run_id].is_completed
        /\ runs[handler[h].run_id].gathered_context.call_tags =
               << Chars("vip"), Chars("not_connected"),
                  Chars("telephony_") \o Chars("no-answer") >>

----------------------------------------------------------------------------
(* C19 *)

\* The positions in h's calls of the update that marks the run completed.
MarksOf(h) ==
    { i \in CallsOf(h, "update_workflow_run") :
        "is_completed" \in handler[h].calls[i].fields }

\* C19: in a "completed" callback for a campaign-linked run the slot is
\* released first, the "call completed" event is published next and the run
\* is marked completed last: a handler that has marked the run has released
\* and published before, so a handler whose publish failed has not marked it.
C19_ReleaseThenPublishThenMark ==
    \A h \in Handlers :
        (handler[h].status = "completed" /\ CampaignLinked(h)) =>
            /\ \A m \in MarksOf(h) :
                   /\ \E r \in CallsOf(h, "release_call_slot") : r < m
                   /\ \E p \in CallsOf(h, "publish_call_completed") : p < m
            /\ \A p \in CallsOf(h, "publish_call_completed") :
                   \E r \in CallsOf(h, "release_call_slot") : r < p
            /\ handler[h].response = PublisherError => MarksOf(h) = {}

----------------------------------------------------------------------------
(* C20 *)

\* C20: is_completed is monotonic: no step of any status callback, in any
\* order or interleaving, takes a run whose is_completed is true to one whose
\* is_completed is false, and no step removes a run.
C20_IsCompletedMonotonic ==
    [][ \A id \in DOMAIN runs :
          /\ id \in DOMAIN runs'
          /\ runs[id].is_completed => runs'[id].is_completed
      ]_vars

\* A "ringing" callback that arrived after the run was marked completed has
\* been accepted, and the run is still completed.
C20_Witness ==
    \E h \in Handlers :
        /\ Accepted(h) /\ handler[h].status = "ringing"
        /\ handler[h].workflow_run.is_completed
        /\ runs[handler[h].run_id].is_completed
        /\ Len(runs[handler[h].run_id].logs.twilio_status_callbacks) >= 2

====
